---- MODULE Spec2Model ----
(***************************************************************************)
(* Apex Strategy Monitor backend (src/server.js).                          *)
(*                                                                         *)
(* A fleet of strategies is created by startMonitoring; a setInterval      *)
(* callback then runs the tick pipeline                                    *)
(*     currentPnL = calculateStrategyPerformance();                        *)
(*     checkForCriticalLoss(currentPnL);                                   *)
(* until triggerSmartContractFailover sets isFailoverTriggered and clears  *)
(* the interval.                                                           *)
(*                                                                         *)
(* Numbers.  The source computes in IEEE doubles; the model computes in    *)
(* integers and takes only inputs on which the source's doubles are whole  *)
(* numbers, so that both give the same values:                             *)
(*   - pnl, totalPnL and currentPnL are whole USD;                         *)
(*   - currentMultiplier is kept in tenths (10 is 1.0, 8 is 0.8);          *)
(*   - a value of Math.random() is k / RandDen, written k: the doubles     *)
(*     0.0625, 0.9375 and 0.5 at line 85, 0, 0.75 and 0.25 at line 90;     *)
(*   - a volatility is n / VolDen, written n.  20 stands for the double    *)
(*     0.05714285714285715, which line 66 leaves when Math.random()        *)
(*     returns 0.9428571428571428, and 16 for 0.045714285714285714, which  *)
(*     it leaves on 0.7142857142857142.  With these two doubles line 85    *)
(*     evaluates, on the three draws above and at both multipliers, to     *)
(*     exactly -25, 25, 0 (at 0.8: -20, 20, 0) and -20, 20, 0 (at 0.8:     *)
(*     -16, 16, 0).                                                        *)
(* Every sum and comparison of the source is then one of whole numbers.    *)
(***************************************************************************)
EXTENDS Integers, Sequences, FiniteSets, TLC

VARIABLES
    strategyFleet,        \* line 23: the array of strategy objects
    isFailoverTriggered,  \* line 24
    currentPnL,           \* line 25
    monitoringLoop,       \* line 26: "unset", "active" (setInterval) or "cleared"
    pc,                   \* "load": startMonitoring() of line 147 not yet run;
                          \* "idle": the call stack is empty;
                          \* "check": the interval callback is between lines 140 and 141
    criticalCount,        \* line 81, as reported by the last calculateStrategyPerformance
    commitLog,            \* history: one record per execution of lines 38-52
    inProgress,           \* history: pipelines begun and not yet completed
    lateEvals             \* history: evaluations made while isFailoverTriggered

vars == <<strategyFleet, isFailoverTriggered, currentPnL, monitoringLoop, pc,
          criticalCount, commitLog, inProgress, lateEvals>>

\* What the program itself holds (everything but the history counters).
progVars == <<strategyFleet, isFailoverTriggered, currentPnL, monitoringLoop, pc,
              criticalCount, commitLog>>

---------------------------------------------------------------------------
\* Configuration constants of the source.

\* line 14 sets 450; the model runs a fleet of this size.
MAX_SUB_STRATEGIES == 2

CRITICAL_LOSS_THRESHOLD_USD == -2000

\* line 94: pnl < -50 is CRITICAL
CRITICAL_PNL == -50

\* line 97: pnl < -10 is WARNING
WARNING_PNL == -10

\* line 107: totalPnL < -500 derisks
DERISK_PNL == -500

\* line 108: currentMultiplier = 0.8, in tenths
DERISK_MULTIPLIER == 8

\* lines 68 and 110: currentMultiplier = 1.0, in tenths
BASE_MULTIPLIER == 10

\* line 69
BASE_ALLOCATION == 1000

\* line 90: Math.random() * 20
DEGRADE_SCALE == 20

\* line 125: triggerSmartContractFailover(1, 450)
FAILING_STRATEGY_ID == 1

BACKUP_STRATEGY_ID == 450

\* line 89: strategy.id === 1 || strategy.id === 5
IsDegrading(id) == id = 1 \/ id = 5

---------------------------------------------------------------------------
\* The random source and the bounds of the model.

\* Math.random() is k / RandDen with 0 <= k < RandDen.
RandDen == 16

\* A volatility is n / VolDen.
VolDen == 350

\* Draws of Math.random() at line 85, in the order the model takes them up:
\* 1/16 and 15/16, which with the volatility 20/350 move a pnl by 25 USD down
\* or up at multiplier 1.0 and by 20 USD at 0.8, then 8/16, which moves nothing.
WalkDrawSeq == <<1, 15, 8>>

\* How many of them a tick chooses from.
WalkDrawCount == 2

WalkDraws == {WalkDrawSeq[k] : k \in 1..WalkDrawCount}

\* Draws of Math.random() at line 90, in the order the model takes them up:
\* 0, 3/4 and 1/4, a further 0, 15 or 5 USD down.
DropDrawSeq == <<0, 12, 4>>

\* How many of them a tick chooses from.
DropDrawCount == 2

DropDraws == {DropDrawSeq[k] : k \in 1..DropDrawCount}

\* Values of (Math.random() * 0.05) + 0.01 at line 66, over VolDen, in the
\* order the model takes them up.
VolatilitySeq == <<20, 16>>

\* How many of them the fleet holds.
VolatilityCount == 1

Volatilities == {VolatilitySeq[k] : k \in 1..VolatilityCount}

\* The value line 66 gives the i-th strategy: the fleets the model builds take
\* the first VolatilityCount values in turn.
volatilityOf(i) == VolatilitySeq[((i - 1) % VolatilityCount) + 1]

\* A tick is explored only while it leaves every pnl at or below this value.
PnlCap == 25

\* A tick is explored only while it leaves no two pnl further apart than this.
MaxSpread == 25

\* The ticks the model explores.
Explored(fleet) ==
    \A i \in 1..Len(fleet) :
        /\ fleet[i].pnl <= PnlCap
        /\ \A j \in 1..Len(fleet) : fleet[i].pnl - fleet[j].pnl <= MaxSpread

\* Evaluations made after the failover (specification SpecHarness).
MaxLateEvals == 2

\* Arguments the harness passes to checkForCriticalLoss.
CheckArgs == {CRITICAL_LOSS_THRESHOLD_USD - 600, CRITICAL_LOSS_THRESHOLD_USD,
              CRITICAL_LOSS_THRESHOLD_USD + 1, 0}

---------------------------------------------------------------------------
\* initStrategyFleet, lines 61-73.

newStrategy(i, vol) ==
    [id |-> i, pnl |-> 0, volatility |-> vol, status |-> "HEALTHY",
     currentMultiplier |-> BASE_MULTIPLIER, baseAllocation |-> BASE_ALLOCATION]

\* A variant with a slip.  Line 62 with i < MAX_SUB_STRATEGIES.
initFleetOneShort(fleet, vols) ==
    fleet \o [i \in 1..(MAX_SUB_STRATEGIES - 1) |-> newStrategy(i, vols[i])]

initStrategyFleet(fleet, vols) ==
    fleet \o [i \in 1..MAX_SUB_STRATEGIES |-> newStrategy(i, vols[i])]

---------------------------------------------------------------------------
\* calculateStrategyPerformance, lines 79-116.

\* line 85: (Math.random() - 0.5) * volatility * baseAllocation * currentMultiplier,
\* with Math.random() = r / RandDen, volatility over VolDen, multiplier in tenths.
change(r, s) ==
    ((2 * r - RandDen) * s.volatility * s.baseAllocation * s.currentMultiplier)
        \div (2 * RandDen * VolDen * 10)

\* line 90: Math.random() * 20, with Math.random() = r / RandDen.
degrade(r) == (r * DEGRADE_SCALE) \div RandDen

\* lines 94-101
statusOf(pnl) ==
    IF pnl < CRITICAL_PNL THEN "CRITICAL"
    ELSE IF pnl < WARNING_PNL THEN "WARNING"
    ELSE "HEALTHY"

\* A variant with a slip.  Lines 94-101 moved above lines 89-91: the status is
\* taken before the degrading strategies are perturbed the second time.
perturbStatusEarly(s, rWalk, rDrop) ==
    LET p1 == s.pnl + change(rWalk, s)
        p2 == IF IsDegrading(s.id) THEN p1 - degrade(rDrop) ELSE p1
    IN  [s EXCEPT !.pnl = p2, !.status = statusOf(p1)]

\* lines 85-101: one iteration of the loop, for strategy s with its two draws.
perturb(s, rWalk, rDrop) ==
    LET p1 == s.pnl + change(rWalk, s)
        p2 == IF IsDegrading(s.id) THEN p1 - degrade(rDrop) ELSE p1
    IN  [s EXCEPT !.pnl = p2, !.status = statusOf(p2)]

\* A variant with a slip.  Line 103 placed inside the CRITICAL branch of line 94:
\* only the critical strategies are added up.
RECURSIVE sumPnlOfCritical(_, _)
sumPnlOfCritical(fleet, n) ==
    IF n = 0 THEN 0
    ELSE sumPnlOfCritical(fleet, n - 1)
             + (IF fleet[n].pnl < CRITICAL_PNL THEN fleet[n].pnl ELSE 0)

\* lines 80, 103: totalPnL accumulated over the fleet in array order.
RECURSIVE sumPnl(_, _)
sumPnl(fleet, n) == IF n = 0 THEN 0 ELSE sumPnl(fleet, n - 1) + fleet[n].pnl

\* lines 81, 96
RECURSIVE countCritical(_, _)
countCritical(fleet, n) ==
    IF n = 0 THEN 0
    ELSE countCritical(fleet, n - 1) + (IF fleet[n].pnl < CRITICAL_PNL THEN 1 ELSE 0)

\* lines 107-111
globalMultiplier(totalPnL) ==
    IF totalPnL < DERISK_PNL THEN DERISK_MULTIPLIER ELSE BASE_MULTIPLIER

\* A variant with a slip.  Lines 107-111 passing over the first strategy of
\* the array.
applyMultiplierPartly(fleet, m) ==
    [i \in 1..Len(fleet) |->
        IF i = 1 THEN fleet[i]
        ELSE [fleet[i] EXCEPT !.currentMultiplier = m]]

\* A variant with a slip.  Lines 108 and 110 scaling the allocation by the
\* multiplier as well as storing it.
applyMultiplierToAllocation(fleet, m) ==
    [i \in 1..Len(fleet) |->
        [fleet[i] EXCEPT !.currentMultiplier = m,
                         !.baseAllocation = (@ * m) \div BASE_MULTIPLIER]]

\* lines 107-111: the forEach over the whole fleet.
applyMultiplier(fleet, m) ==
    [i \in 1..Len(fleet) |-> [fleet[i] EXCEPT !.currentMultiplier = m]]

\* A variant with a slip.  The multiplier of lines 107-111 reaching back into
\* the loop of the same call: the changes of line 85 are taken again with the
\* multiplier the call itself decides.
performanceRescaled(fleet, walk, drop) ==
    LET first == [i \in 1..Len(fleet) |-> perturb(fleet[i], walk[i], drop[i])]
        m == globalMultiplier(sumPnl(first, Len(first)))
        moved == [i \in 1..Len(fleet) |->
                     perturb([fleet[i] EXCEPT !.currentMultiplier = m],
                             walk[i], drop[i])]
        totalPnL == sumPnl(moved, Len(moved))
    IN  [fleet |-> applyMultiplier(moved, globalMultiplier(totalPnL)),
         totalPnL |-> totalPnL,
         criticalCount |-> countCritical(moved, Len(moved))]

\* The whole function: the fleet it leaves, and what it returns and reports.
calculateStrategyPerformance(fleet, walk, drop) ==
    LET moved == [i \in 1..Len(fleet) |-> perturb(fleet[i], walk[i], drop[i])]
        totalPnL == sumPnl(moved, Len(moved))
    IN  [fleet |-> applyMultiplier(moved, globalMultiplier(totalPnL)),
         totalPnL |-> totalPnL,
         criticalCount |-> countCritical(moved, Len(moved))]

---------------------------------------------------------------------------
\* triggerSmartContractFailover, lines 35-53.  The function is async but holds
\* no await (lines 42-45 are comments), so its body runs to the end inside the
\* caller.  The source stands in for the vault transaction with log output and
\* reads no result from it: `accepted` is the outcome at the external vault,
\* kept in the history only.

\* lines 38-49: the commit as the history records it.
commitRecord(failingStrategyId, newStrategyId, accepted) ==
    [failing |-> failingStrategyId, backup |-> newStrategyId,
     armed |-> ~isFailoverTriggered, loss |-> currentPnL, accepted |-> accepted]

\* A variant with a slip.  Line 36 left out: the body runs whatever the state.
triggerWithoutGuard(failingStrategyId, newStrategyId, accepted) ==
    /\ commitLog' = Append(commitLog,
           commitRecord(failingStrategyId, newStrategyId, accepted))
    /\ isFailoverTriggered' = TRUE
    /\ monitoringLoop' = "cleared"

\* A variant with a slip.  Line 36 left out and line 47 written from the
\* outcome of the commit.
triggerFromOutcome(failingStrategyId, newStrategyId, accepted) ==
    /\ commitLog' = Append(commitLog,
           commitRecord(failingStrategyId, newStrategyId, accepted))
    /\ isFailoverTriggered' = accepted
    /\ monitoringLoop' = "cleared"

\* A variant with a slip.  Line 52 left out: the interval is never cleared.
triggerWithoutClear(failingStrategyId, newStrategyId, accepted) ==
    IF isFailoverTriggered
    THEN UNCHANGED <<isFailoverTriggered, monitoringLoop, commitLog>>
    ELSE /\ commitLog' = Append(commitLog,
                commitRecord(failingStrategyId, newStrategyId, accepted))
         /\ isFailoverTriggered' = TRUE
         /\ UNCHANGED monitoringLoop

triggerSmartContractFailover(failingStrategyId, newStrategyId, accepted) ==
    IF isFailoverTriggered
    THEN UNCHANGED <<isFailoverTriggered, monitoringLoop, commitLog>>
    ELSE /\ commitLog' = Append(commitLog,
                commitRecord(failingStrategyId, newStrategyId, accepted))
         /\ isFailoverTriggered' = TRUE
         /\ monitoringLoop' = "cleared"

\* A variant with a slip.  Line 123 with < for <=.
checkStrictlyBelow(pnlArg, accepted) ==
    IF pnlArg < CRITICAL_LOSS_THRESHOLD_USD
    THEN triggerSmartContractFailover(FAILING_STRATEGY_ID, BACKUP_STRATEGY_ID, accepted)
    ELSE UNCHANGED <<isFailoverTriggered, monitoringLoop, commitLog>>

\* A variant with a slip.  Line 125 with its two arguments exchanged.
checkSwappedIds(pnlArg, accepted) ==
    IF pnlArg <= CRITICAL_LOSS_THRESHOLD_USD
    THEN triggerSmartContractFailover(BACKUP_STRATEGY_ID, FAILING_STRATEGY_ID, accepted)
    ELSE UNCHANGED <<isFailoverTriggered, monitoringLoop, commitLog>>

\* checkForCriticalLoss, lines 122-127; its parameter shadows the global.
checkForCriticalLoss(pnlArg, accepted) ==
    IF pnlArg <= CRITICAL_LOSS_THRESHOLD_USD
    THEN triggerSmartContractFailover(FAILING_STRATEGY_ID, BACKUP_STRATEGY_ID, accepted)
    ELSE UNCHANGED <<isFailoverTriggered, monitoringLoop, commitLog>>

---------------------------------------------------------------------------
\* The process.

\* lines 23-26: the module's top-level state before line 147 runs.
Init ==
    /\ strategyFleet = <<>>
    /\ isFailoverTriggered = FALSE
    /\ currentPnL = 0
    /\ monitoringLoop = "unset"
    /\ pc = "load"
    /\ criticalCount = 0
    /\ commitLog = <<>>
    /\ inProgress = 0
    /\ lateEvals = 0

\* startMonitoring, lines 131-144 (called at line 147).
startMonitoring ==
    /\ pc = "load"
    /\ strategyFleet' = initStrategyFleet(strategyFleet,
                            [i \in 1..MAX_SUB_STRATEGIES |-> volatilityOf(i)])
    /\ monitoringLoop' = "active"
    /\ pc' = "idle"
    /\ UNCHANGED <<isFailoverTriggered, currentPnL, criticalCount, commitLog,
                   inProgress, lateEvals>>

\* A variant with a slip.  A timer callback dispatched while another one is
\* still between its two calls.
CallStackIgnored == pc \in {"idle", "check"}

\* The event loop runs a timer callback only when nothing else is running:
\* the callback of lines 138-143 and everything it calls is synchronous.
CallStackEmpty == pc = "idle"

\* Line 140: the fleet is moved and its total stored.
runPerformance ==
    /\ \E walk \in [1..Len(strategyFleet) -> WalkDraws],
          drop \in [1..Len(strategyFleet) -> DropDraws] :
          \* line 90 draws only for the degrading strategies
          /\ \A i \in 1..Len(strategyFleet) :
                 IsDegrading(strategyFleet[i].id) \/ drop[i] = 0
          /\ LET r == calculateStrategyPerformance(strategyFleet, walk, drop) IN
             /\ strategyFleet' = r.fleet
             /\ Explored(r.fleet)
             /\ currentPnL' = r.totalPnL
             /\ criticalCount' = r.criticalCount
    /\ pc' = "check"
    /\ inProgress' = inProgress + 1

\* A variant with a slip.  Line 139 left out.
callbackWithoutGuard == runPerformance

\* A variant with a slip.  Line 140 placed above the guard of line 139, which
\* then covers line 141 only.
callbackGuardsCheckOnly == runPerformance

\* The interval callback up to the end of line 140.
callbackEnter ==
    IF ~isFailoverTriggered
    THEN runPerformance
    ELSE UNCHANGED <<strategyFleet, currentPnL, criticalCount, pc, inProgress>>

\* A firing of the interval timer set at line 138.
TimerFire ==
    /\ CallStackEmpty
    /\ monitoringLoop = "active"
    /\ callbackEnter
    /\ UNCHANGED <<isFailoverTriggered, monitoringLoop, commitLog, lateEvals>>

\* Line 141 and what it calls, then the callback returns.
CheckStep ==
    /\ pc = "check"
    /\ \E accepted \in BOOLEAN : checkForCriticalLoss(currentPnL, accepted)
    /\ pc' = "idle"
    /\ inProgress' = inProgress - 1
    /\ UNCHANGED <<strategyFleet, currentPnL, criticalCount, lateEvals>>

Next == startMonitoring \/ TimerFire \/ CheckStep

Spec == Init /\ [][Next]_vars

---------------------------------------------------------------------------
\* A harness that evaluates the failover again once it has been triggered:
\* the interval callback run once more, and checkForCriticalLoss called with
\* an argument of the harness's choosing.

LateCallback ==
    /\ CallStackEmpty
    /\ isFailoverTriggered
    /\ lateEvals < MaxLateEvals
    /\ callbackEnter
    /\ lateEvals' = lateEvals + 1
    /\ UNCHANGED <<isFailoverTriggered, monitoringLoop, commitLog>>

LateCheck ==
    /\ CallStackEmpty
    /\ isFailoverTriggered
    /\ lateEvals < MaxLateEvals
    /\ \E p \in CheckArgs, accepted \in BOOLEAN : checkForCriticalLoss(p, accepted)
    /\ lateEvals' = lateEvals + 1
    /\ UNCHANGED <<strategyFleet, currentPnL, criticalCount, pc, inProgress>>

NextHarness == Next \/ LateCallback \/ LateCheck

SpecHarness == Init /\ [][NextHarness]_vars

---------------------------------------------------------------------------
\* The process under other settings of line 14: the loop of line 62 runs for
\* i = 1 .. count, which is no iteration at all when count <= 0, and
\* startMonitoring goes on to line 138 whatever the count.

ConfigCounts == {-1, 0, MAX_SUB_STRATEGIES}

\* initStrategyFleet, lines 61-73, with line 14 set to `count`.
fleetOfCount(count, fleet, vols) ==
    fleet \o [i \in 1..count |-> newStrategy(i, vols[i])]

\* startMonitoring, lines 131-144, with line 14 set to one of ConfigCounts.
startMonitoringConfigured ==
    /\ pc = "load"
    /\ \E count \in ConfigCounts :
           strategyFleet' = fleetOfCount(count, strategyFleet,
                                [i \in 1..count |-> volatilityOf(i)])
    /\ monitoringLoop' = "active"
    /\ pc' = "idle"
    /\ UNCHANGED <<isFailoverTriggered, currentPnL, criticalCount, commitLog,
                   inProgress, lateEvals>>

NextConfig == startMonitoringConfigured \/ TimerFire \/ CheckStep

SpecConfig == Init /\ [][NextConfig]_vars

---------------------------------------------------------------------------
\* Properties.

\* C1: over any run, evaluations after the failover included, the commit
\* (lines 38-52) is performed at most once.
C1_CommitAtMostOnce == Len(commitLog) <= 1

\* One commit is on record and the failover has been evaluated twice more.
C1_Witness == Len(commitLog) = 1 /\ lateEvals >= 2

\* C2: the process starts ARMED and, once isFailoverTriggered is true, no step
\* makes it false again.
C2_TriggerIrreversible ==
    /\ [](pc = "load" => ~isFailoverTriggered)
    /\ [][isFailoverTriggered => isFailoverTriggered']_vars

\* TRIGGERED, and an evaluation has run since that could commit.
C2_Witness == isFailoverTriggered /\ lateEvals = 1 /\ pc = "idle"

\* C3: when a tick has ended, the commit has been made and the state is
\* TRIGGERED exactly if that tick's totalPnL is at or below -2000.
C3_TriggerIffBreached ==
    pc = "idle" =>
        /\ isFailoverTriggered <=> currentPnL <= -2000
        /\ Len(commitLog) = 1 <=> currentPnL <= -2000

\* A tick ended with totalPnL exactly at the threshold and triggered.
C3_Witness ==
    /\ pc = "idle"
    /\ currentPnL = -2000
    /\ isFailoverTriggered
    /\ Len(commitLog) = 1

\* C4: a commit that fails leaves the state ARMED and the interval running.
C4_FailedCommitStaysArmed ==
    \A i \in 1..Len(commitLog) :
        ~commitLog[i].accepted =>
            ~isFailoverTriggered /\ monitoringLoop = "active"

\* C5: the step that reaches TRIGGERED also clears the interval, and from
\* TRIGGERED on no step runs the tick pipeline.
C5_StoppedWithinTick ==
    /\ [](isFailoverTriggered => monitoringLoop = "cleared")
    /\ [][isFailoverTriggered =>
            /\ pc' = "idle"
            /\ strategyFleet' = strategyFleet
            /\ currentPnL' = currentPnL]_vars

\* TRIGGERED with the interval cleared, and the callback has run again since.
C5_Witness ==
    /\ isFailoverTriggered
    /\ monitoringLoop = "cleared"
    /\ lateEvals > 0
    /\ commitLog[1].loss = currentPnL

\* C6: every strategy's status is the threshold function of its pnl:
\* CRITICAL below -50, WARNING from -50 to below -10, HEALTHY from -10 up.
C6_StatusMatchesPnl ==
    \A i \in 1..Len(strategyFleet) :
        LET s == strategyFleet[i] IN
        /\ s.pnl < -50 => s.status = "CRITICAL"
        /\ (-50 <= s.pnl /\ s.pnl < -10) => s.status = "WARNING"
        /\ -10 <= s.pnl => s.status = "HEALTHY"

\* A tick ended with the degrading strategy at exactly -50, still WARNING,
\* and the other one below it, CRITICAL.
C6_Witness ==
    /\ pc = "idle"
    /\ Len(strategyFleet) >= 2
    /\ strategyFleet[1].pnl = -50 /\ strategyFleet[1].status = "WARNING"
    /\ strategyFleet[2].pnl = -75 /\ strategyFleet[2].status = "CRITICAL"

\* C7: after initialization and after every tick all strategies hold one
\* multiplier: 0.8 if the last totalPnL is below -500, 1.0 otherwise.
C7_UniformMultiplier ==
    pc \in {"idle", "check"} =>
        \A i \in 1..Len(strategyFleet) :
            strategyFleet[i].currentMultiplier = (IF currentPnL < -500 THEN 8 ELSE 10)

\* A tick ended with totalPnL exactly -500 and every multiplier at 1.0, after
\* the fleet had been derisked: strategy 2 moves off the multiples of 25 only
\* under the multiplier 0.8.
C7_Witness ==
    /\ pc = "idle"
    /\ currentPnL = -500
    /\ Len(strategyFleet) >= 2
    /\ \A i \in 1..Len(strategyFleet) : strategyFleet[i].currentMultiplier = 10
    /\ strategyFleet[2].pnl % 25 # 0

\* C8: in state TRIGGERED every evaluation, whatever totalPnL it is given,
\* leaves the program's state as it is.
C8_TriggeredIsNoOp == [][isFailoverTriggered => UNCHANGED progVars]_vars

\* Two evaluations have been made in state TRIGGERED.
C8_Witness == isFailoverTriggered /\ lateEvals = 2

\* C9: every commit was made in state ARMED, for failing strategy 1 and
\* backup strategy 450.
C9_CommitIds ==
    \A i \in 1..Len(commitLog) :
        /\ commitLog[i].armed
        /\ commitLog[i].failing = 1
        /\ commitLog[i].backup = 450

\* A commit is on record, made on a totalPnL below the threshold.
C9_Witness ==
    /\ Len(commitLog) >= 1
    /\ commitLog[1].loss < -2000
    /\ commitLog[1].failing = 1
    /\ commitLog[1].backup = 450

\* C10: at most one tick pipeline is in progress at any time, and it is the
\* one the callback is in the middle of.
C10_TicksSequential ==
    /\ inProgress \in {0, 1}
    /\ inProgress = 1 <=> pc = "check"

\* A pipeline is in progress whose evaluation is about to trigger the failover.
C10_Witness ==
    /\ inProgress = 1
    /\ pc = "check"
    /\ currentPnL <= -2000
    /\ ~isFailoverTriggered

\* The pnl of the strategies at the positions in `idx`, added up.
RECURSIVE PnlOver(_, _)
PnlOver(fleet, idx) ==
    IF idx = {} THEN 0
    ELSE LET i == CHOOSE j \in idx : TRUE
         IN  fleet[i].pnl + PnlOver(fleet, idx \ {i})

\* C11: after every tick the stored currentPnL, which is what the performance
\* calculation returned and what the failover check is given, is the sum of
\* all pnl, and the reported critical count is the number of strategies whose
\* status is CRITICAL.
C11_AggregateIsSum ==
    pc \in {"idle", "check"} =>
        /\ currentPnL = PnlOver(strategyFleet, DOMAIN strategyFleet)
        /\ criticalCount =
               Cardinality({i \in DOMAIN strategyFleet :
                               strategyFleet[i].status = "CRITICAL"})

\* A tick has ended with one strategy CRITICAL and the other one not, and a
\* total that is the two pnl added.
C11_Witness ==
    /\ pc = "check"
    /\ criticalCount = 1
    /\ Len(strategyFleet) = 2
    /\ strategyFleet[1].status = "CRITICAL"
    /\ strategyFleet[2].status = "WARNING"
    /\ currentPnL = strategyFleet[1].pnl + strategyFleet[2].pnl
    /\ currentPnL < -60

\* C12: the step that runs startMonitoring leaves a fleet of exactly
\* MAX_SUB_STRATEGIES strategies with pairwise distinct positive ids, each with
\* pnl 0, status HEALTHY and multiplier 1.0, and leaves the state ARMED with no
\* tick begun.
C12_InitialFleet ==
    [][pc = "load" =>
        /\ Len(strategyFleet') = MAX_SUB_STRATEGIES
        /\ \A i \in DOMAIN strategyFleet' :
               /\ strategyFleet'[i].id > 0
               /\ strategyFleet'[i].pnl = 0
               /\ strategyFleet'[i].status = "HEALTHY"
               /\ strategyFleet'[i].currentMultiplier = 10
               /\ \A j \in DOMAIN strategyFleet' :
                      strategyFleet'[i].id = strategyFleet'[j].id => i = j
        /\ ~isFailoverTriggered'
        /\ inProgress' = 0
        /\ pc' = "idle"]_vars

\* The fleet stands as constructed and the interval is set.
C12_Witness ==
    /\ pc = "idle"
    /\ monitoringLoop = "active"
    /\ Len(strategyFleet) = MAX_SUB_STRATEGIES
    /\ \A i \in DOMAIN strategyFleet :
           strategyFleet[i].pnl = 0 /\ strategyFleet[i].id = i
    /\ ~isFailoverTriggered

\* C13: with a count of 0 or less (the fleet is empty once startMonitoring has
\* run) initialization fails before the scheduler starts: the interval is
\* never set and no tick runs.
C13_NonPositiveCountRejected ==
    (pc # "load" /\ Len(strategyFleet) = 0) =>
        (monitoringLoop = "unset" /\ pc # "check")

\* The multiplier in force during a tick: the one the previous tick decided
\* from its aggregate, 1.0 when there was no previous tick (currentPnL is 0).
MultiplierInForce == globalMultiplier(currentPnL)

\* C14: the multiplier a tick writes does not touch that tick's own deltas.
\* On every tick each pnl moves by a random-walk change scaled by the
\* multiplier stored at the end of the previous tick (1.0 on the first tick),
\* less the extra drop of a degrading strategy, and the stored multiplier is
\* the one the previous aggregate decided.
C14_DeltaUsesPreviousMultiplier ==
    [][(pc = "idle" /\ pc' = "check") =>
          \A i \in 1..Len(strategyFleet) :
              /\ strategyFleet[i].currentMultiplier = MultiplierInForce
              /\ \E r \in WalkDraws, x \in DropDraws :
                    /\ IsDegrading(strategyFleet[i].id) \/ x = 0
                    /\ 2 * RandDen * VolDen * 10
                           * (strategyFleet'[i].pnl - strategyFleet[i].pnl
                                  + degrade(x))
                       = (2 * r - RandDen) * strategyFleet[i].volatility
                           * strategyFleet[i].baseAllocation * MultiplierInForce
              /\ strategyFleet'[i].currentMultiplier = globalMultiplier(currentPnL')
      ]_vars

\* A tick of the all-down path has just crossed the de-risk threshold: it
\* moved both strategies by 25 USD (multiplier 1.0) and stored 0.8.
C14_Witness ==
    /\ pc = "check"
    /\ Len(strategyFleet) = 2
    /\ \A i \in 1..Len(strategyFleet) :
           /\ strategyFleet[i].pnl = -275
           /\ strategyFleet[i].currentMultiplier = DERISK_MULTIPLIER
    /\ currentPnL = -550

\* C15: in every tick each degrading strategy (id 1 or 5) receives, on top of
\* its random-walk change, a perturbation that is strictly negative whatever
\* the draw, and every other strategy receives none.  The perturbation is what
\* is left of a pnl's move once the random-walk change is taken away; the two
\* changes a strategy can draw lie further apart than the perturbation's range.
C15_DegradingStrictlyNegative ==
    [][(pc = "idle" /\ pc' = "check") =>
          \A i \in 1..Len(strategyFleet) :
              \E r \in WalkDraws :
                  LET extra == strategyFleet'[i].pnl - strategyFleet[i].pnl
                                   - change(r, strategyFleet[i])
                  IN  IF IsDegrading(strategyFleet[i].id)
                      THEN -DEGRADE_SCALE < extra /\ extra < 0
                      ELSE extra = 0
      ]_vars

\* C16: no two tick evaluations both observe ARMED and both commit (at most
\* one evaluation is between the guard of line 36 and the assignment of line
\* 47 at a time, and at most one commit was made from ARMED), and the state
\* is TRIGGERED only after a commit that has completed with success: one
\* that has not (pending or failed) is never taken for success.
C16_SerializedAndAwaited ==
    /\ inProgress <= 1
    /\ \A i, j \in 1..Len(commitLog) :
           (commitLog[i].armed /\ commitLog[j].armed) => i = j
    /\ isFailoverTriggered =>
           \E i \in 1..Len(commitLog) :
               commitLog[i].armed /\ commitLog[i].accepted

\* C18: no tick and no failover changes a strategy's id, volatility or
\* baseAllocation, nor the length of the fleet: once the fleet is built these
\* are, in every state, the values initStrategyFleet assigned.
C18_ConfigurationImmutable ==
    /\ [](pc # "load" =>
            /\ Len(strategyFleet) = MAX_SUB_STRATEGIES
            /\ \A i \in 1..Len(strategyFleet) :
                   /\ strategyFleet[i].id = i
                   /\ strategyFleet[i].volatility \in Volatilities
                   /\ strategyFleet[i].baseAllocation = BASE_ALLOCATION)
    /\ [][pc # "load" =>
            /\ Len(strategyFleet') = Len(strategyFleet)
            /\ \A i \in 1..Len(strategyFleet) :
                   /\ strategyFleet'[i].id = strategyFleet[i].id
                   /\ strategyFleet'[i].volatility = strategyFleet[i].volatility
                   /\ strategyFleet'[i].baseAllocation
                          = strategyFleet[i].baseAllocation]_vars

\* The failover has fired after ticks that moved every pnl and lowered the
\* multiplier; the fleet still has its length, ids and allocations.
C18_Witness ==
    /\ isFailoverTriggered
    /\ pc = "idle"
    /\ Len(strategyFleet) = MAX_SUB_STRATEGIES
    /\ \A i \in 1..Len(strategyFleet) :
           /\ strategyFleet[i].id = i
           /\ strategyFleet[i].baseAllocation = BASE_ALLOCATION
           /\ strategyFleet[i].currentMultiplier = DERISK_MULTIPLIER
           /\ strategyFleet[i].pnl < CRITICAL_PNL

\* C19: from TRIGGERED on the monitored data is frozen: no step, a late
\* firing of the timer callback included, changes the pnl, status or
\* multiplier of a strategy or the recorded currentPnL; and in TRIGGERED the
\* recorded currentPnL is at or below the critical loss threshold.
C19_FrozenAfterTrigger ==
    /\ [](isFailoverTriggered => currentPnL <= CRITICAL_LOSS_THRESHOLD_USD)
    /\ [][isFailoverTriggered =>
            /\ currentPnL' = currentPnL
            /\ Len(strategyFleet') = Len(strategyFleet)
            /\ \A i \in 1..Len(strategyFleet) :
                   /\ strategyFleet'[i].pnl = strategyFleet[i].pnl
                   /\ strategyFleet'[i].status = strategyFleet[i].status
                   /\ strategyFleet'[i].currentMultiplier
                          = strategyFleet[i].currentMultiplier]_vars

\* The timer callback has fired in TRIGGERED, and the recorded currentPnL is
\* still the loss the commit was made on, strictly below the threshold.
C19_Witness ==
    /\ isFailoverTriggered
    /\ lateEvals >= 1
    /\ pc = "idle"
    /\ Len(commitLog) = 1
    /\ currentPnL = commitLog[1].loss
    /\ currentPnL < CRITICAL_LOSS_THRESHOLD_USD
    /\ currentPnL = PnlOver(strategyFleet, DOMAIN strategyFleet)


====
